---- MODULE Spec2Model ----
(***************************************************************************)
(* Frame lifecycle and GPU synchronisation of Application (application.cpp *)
(* / application.h): the run loop, the render tick, the swapchain rebuild  *)
(* and the graphics queue that executes the submitted work concurrently    *)
(* with the CPU.                                                           *)
(*                                                                         *)
(* The CPU side is one thread whose position is pc; every blocking Vulkan  *)
(* call of render() is a step of its own, so that the GPU actions can      *)
(* interleave exactly where the CPU can be overtaken by the GPU.           *)
(* Swapchain image indices are 1..NumImages here (code: 0..imageCount-1).  *)
(***************************************************************************)
EXTENDS Integers, Sequences, FiniteSets, TLC

\* ---------------------------------------------------------------- constants
MaxFramesInFlight == 2
InitialWidth == 1280
InitialHeight == 720
FrameCounterInit == 0
InitialTimelineValue_FromCounter == FrameCounterInit

\* uint64_t timelineValue = MaxFramesInFlight - 1
InitialTimelineValue == MaxFramesInFlight - 1

\* ------------------------------------------------------------------- bounds
MaxTicks == 3
NumImages == 3
MaxCalls == 4
MaxFaults == 1
NumSceneImages == 1
MaxMeshes == 2
MaxPrimitives == 2
MaxDevices == 2
MaxFamilies == 1

\* window sizes the platform may report in a resize event
InitialExtent == <<InitialWidth, InitialHeight>>
ResizedExtent == <<800, 600>>
Extents == {InitialExtent, ResizedExtent}

\* results of vkAcquireNextImageKHR / vkQueuePresentKHR handled by the tick
AcquireResults == {"SUCCESS", "SUBOPTIMAL", "OUT_OF_DATE"}
PresentResults == {"SUCCESS", "SUBOPTIMAL", "OUT_OF_DATE"}

Slots == 0 .. (MaxFramesInFlight - 1)
Images == 1 .. NumImages

VARIABLES
    \* Application fields
    width, height, running, timelineValue, frameCounter,
    requireSwapchainRecreate, swapchainState, commandBuffer,
    \* locals of render()
    pc, frameResIndex, frameId, waitForId, imageIndex, acquireResult,
    \* device / presentation engine
    semValue,          \* counter of the timeline semaphore
    queue,             \* operations submitted to gfxQueue, not yet executed
    acquireSignaled,   \* per slot: imageAcquiredSemaphore has a pending signal
    renderSignaled,    \* per image: renderCompleteSemaphores[i] is signalled
    imageOwner,        \* per image: "engine" or "app" (acquired, not shown)
    imageRender,       \* per image: "none", "pending" or "done"
    handles,           \* number of swapchains created so far
    \* observation of the run (written, never read, by the program steps)
    ticks, tick, prevAcquire, presentResult, lastEvent, lastShown, resize,
    \* the Vulkan objects that exist, as <<kind, index, handle>>
    live,
    \* main(): position, and what initialize() / shutdown() have done
    mpc, initSteps, initResult, loopEntered, exitCode, pipeline,
    created, released,
    \* observation of direct createSwapchain / destroySwapchain calls
    scLog,
    \* the scene: the glTF model read by loadModel(), the meshes vector it
    \* fills, the vkCmdDrawIndexed calls recorded in the current command buffer
    spc, model, meshes, draws,
    \* loadModel() step by step: position, the transient command buffer
    \* (the local handle and the buffer's state), the calls made so far
    lpc, transient, loadLog,
    \* frame ids whose submission has begun its depth clear / depth writes
    depthWriting,
    \* the physical devices the instance enumerates
    physicalDevices,
    \* device selection: position, physicalDevice, gfxQueueFamIdx, outcome
    sel

vars == <<width, height, running, timelineValue, frameCounter,
          requireSwapchainRecreate, swapchainState, commandBuffer,
          pc, frameResIndex, frameId, waitForId, imageIndex, acquireResult,
          semValue, queue, acquireSignaled, renderSignaled, imageOwner,
          imageRender, handles,
          ticks, tick, prevAcquire, presentResult, lastEvent, lastShown,
          resize, live, mpc, initSteps, initResult, loopEntered, exitCode,
          pipeline, created, released, scLog, spc, model, meshes, draws,
          lpc, transient, loadLog, depthWriting, physicalDevices, sel>>

\* what only the scene, upload, depth and device-selection steps write
extVars == <<spc, model, meshes, draws, lpc, transient, loadLog,
             depthWriting, physicalDevices, sel>>

\* what main(), initialize() and shutdown() write besides the swapchain
bootVars == <<live, mpc, initSteps, initResult, loopEntered, exitCode,
              pipeline, created, released, scLog>>

appVars == <<width, height, running, timelineValue, frameCounter,
             requireSwapchainRecreate, swapchainState, commandBuffer>>
localVars == <<frameResIndex, frameId, waitForId, imageIndex, acquireResult>>
gpuVars == <<semValue, queue, acquireSignaled, renderSignaled, imageOwner,
             imageRender, handles>>
obsVars == <<ticks, tick, prevAcquire, presentResult, lastEvent, lastShown,
             resize>>
\* everything the render loop writes except the swapchain itself
renderVars == <<width, height, running, timelineValue, frameCounter,
                requireSwapchainRecreate, commandBuffer, pc, frameResIndex,
                frameId, waitForId, imageIndex, acquireResult, semValue,
                queue, acquireSignaled, renderSignaled, imageOwner,
                imageRender, ticks, tick, prevAcquire, presentResult,
                lastEvent, lastShown, resize>>

\* --------------------------------------------------------------- swapchain
\* constexpr swapchainFormat / depthFormat
SwapchainFormat == "B8G8R8A8_SRGB"
DepthFormat == "D32_SFLOAT"

NullSwapchain ==
    [swapchain |-> 0, swapchainImages |-> <<>>, swapchainImageViews |-> <<>>,
     renderCompleteSemaphores |-> <<>>, imageFormat |-> "NONE",
     depthImage |-> 0, depthImageView |-> 0, depthWidth |-> 0,
     depthHeight |-> 0, depthFormat |-> "NONE",
     swapchainWidth |-> 0, swapchainHeight |-> 0]

\* the Vulkan call of createSwapchain that fails, as <<call, index>>: the
\* index is the image whose view or semaphore creation fails
FailPoints ==
    {<<"none", 0>>, <<"caps", 0>>, <<"swapchain", 0>>,
     <<"depthImage", 0>>, <<"depthView", 0>>}
      \cup {<<"view", k>> : k \in Images}
      \cup {<<"semaphore", k>> : k \in Images}

\* position of a call in createSwapchain
FailStage(call) ==
    CASE call = "caps" -> 1
      [] call = "swapchain" -> 2
      [] call = "view" -> 3
      [] call = "semaphore" -> 4
      [] call = "depthImage" -> 5
      [] call = "depthView" -> 6
      [] OTHER -> 7

\* std::vector::resize(n): existing elements kept, new ones null
Resize(v, n) == [i \in 1 .. n |-> IF i <= Len(v) THEN v[i] ELSE 0]

\* createSwapchain up to the failing call: the fields each executed statement
\* has written; dw, dh is the extent the depth image is created with and n
\* the handle value of the objects created by this call
BuildSwapchain(s, w, h, dw, dh, n, fail) ==
    LET st == FailStage(fail[1])
        k == fail[2]
        oldViews == Resize(s.swapchainImageViews, NumImages)
        oldSems == Resize(s.renderCompleteSemaphores, NumImages)
    IN [swapchainWidth |-> w,
        swapchainHeight |-> h,
        swapchain |-> IF st > 2 THEN n ELSE s.swapchain,
        swapchainImages |-> IF st > 2 THEN [i \in Images |-> n]
                                      ELSE s.swapchainImages,
        imageFormat |-> IF st > 2 THEN SwapchainFormat ELSE s.imageFormat,
        swapchainImageViews |->
            IF st > 2
            THEN [i \in Images |-> IF st > 3 \/ i < k THEN n ELSE oldViews[i]]
            ELSE s.swapchainImageViews,
        renderCompleteSemaphores |->
            IF st > 3
            THEN [i \in Images |-> IF st > 4 \/ i < k THEN n ELSE oldSems[i]]
            ELSE s.renderCompleteSemaphores,
        depthImage |-> IF st > 5 THEN n ELSE IF st = 5 THEN 0 ELSE s.depthImage,
        depthWidth |-> IF st > 5 THEN dw ELSE s.depthWidth,
        depthHeight |-> IF st > 5 THEN dh ELSE s.depthHeight,
        depthFormat |-> IF st > 5 THEN DepthFormat ELSE s.depthFormat,
        depthImageView |-> IF st > 6 THEN n ELSE s.depthImageView]

CreateSwapchainAt_OldDepthExtent(s, w, h, n, fail) ==
    BuildSwapchain(s, w, h,
                   IF s.swapchainWidth = 0 THEN w ELSE s.swapchainWidth,
                   IF s.swapchainHeight = 0 THEN h ELSE s.swapchainHeight,
                   n, fail)

\* createSwapchain(w, h): swapchainWidth / swapchainHeight are assigned
\* first and every extent, the depth image's included, is read from them
CreateSwapchainAt(s, w, h, n, fail) == BuildSwapchain(s, w, h, w, h, n, fail)

\* createSwapchain(w, h) with every Vulkan call succeeding; n is the fresh
\* handle value given to the objects of this generation
CreateSwapchain(s, w, h, n) == CreateSwapchainAt(s, w, h, n, <<"none", 0>>)

\* the objects a createSwapchain call that used handle value n has created
CreatedBy(s, n) ==
    (IF s.swapchain = n THEN {<<"swapchain", 0, n>>} ELSE {})
      \cup {<<"view", i, n>> : i \in {j \in DOMAIN s.swapchainImageViews :
                                        s.swapchainImageViews[j] = n}}
      \cup {<<"semaphore", i, n>> : i \in {j \in DOMAIN s.renderCompleteSemaphores :
                                             s.renderCompleteSemaphores[j] = n}}
      \cup (IF s.depthImage = n THEN {<<"depthImage", 0, n>>} ELSE {})
      \cup (IF s.depthImageView = n THEN {<<"depthView", 0, n>>} ELSE {})

\* the objects destroySwapchain() passes to vkDestroy* / vmaDestroyImage
\* (destroying a null handle does nothing)
ReleasedBy(s) ==
    {<<"view", i, s.swapchainImageViews[i]>> :
        i \in {j \in DOMAIN s.swapchainImageViews : s.swapchainImageViews[j] # 0}}
      \cup {<<"semaphore", i, s.renderCompleteSemaphores[i]>> :
              i \in {j \in DOMAIN s.renderCompleteSemaphores :
                       s.renderCompleteSemaphores[j] # 0}}
      \cup (IF s.swapchain # 0 THEN {<<"swapchain", 0, s.swapchain>>} ELSE {})
      \cup (IF s.depthImageView # 0
            THEN {<<"depthView", 0, s.depthImageView>>}
                   \cup (IF s.depthImage # 0
                         THEN {<<"depthImage", 0, s.depthImage>>} ELSE {})
            ELSE {})

DestroySwapchain_KeepsHandle(s) ==
    [s EXCEPT !.swapchainImageViews = <<>>,
              !.renderCompleteSemaphores = <<>>,
              !.depthImageView = 0]

\* destroySwapchain(): views and semaphores destroyed and cleared, the
\* swapchain and the depth view destroyed and nulled; swapchainImages and
\* the depthImage handle keep their (now stale) values
DestroySwapchain(s) ==
    [s EXCEPT !.swapchainImageViews = <<>>,
              !.renderCompleteSemaphores = <<>>,
              !.swapchain = 0,
              !.depthImageView = 0]

\* ------------------------------------------------------------ pure helpers
WaitForId_OffByOne(f) == f - MaxFramesInFlight - 1

WaitForId_OwnFrame(f) == f

\* uint64_t waitForId = frameId - MaxFramesInFlight
WaitForId(f) == f - MaxFramesInFlight

TimelineReached_NoWait(sem, target) == TRUE

\* vkWaitSemaphores(timelineSemaphore >= target, UINT64_MAX) has returned
TimelineReached(sem, target) == sem >= target

FrameResIndex_SingleSlot(counter) == 0

FrameResIndex_Shifted(counter) == (counter + 1) % MaxFramesInFlight

\* frameCounter++ % MaxFramesInFlight
FrameResIndex(counter) == counter % MaxFramesInFlight

DeviceIdle_NoWait(q) == TRUE

\* vkDeviceWaitIdle: every operation submitted to the queue has executed
DeviceIdle(q) == q = <<>>

FlagAfterAcquire_SuboptimalOnly(result, flag) ==
    IF result = "SUBOPTIMAL" THEN TRUE ELSE flag

\* acquire result handling of render(): the deferred flag after the acquire
FlagAfterAcquire(result, flag) ==
    IF result = "OUT_OF_DATE" \/ result = "SUBOPTIMAL" THEN TRUE ELSE flag

AbortsTick_AnyInvalid(result) == result # "SUCCESS"

\* acquire result handling of render(): the early return
AbortsTick(result) == result = "OUT_OF_DATE"

PresentWaitSemaphores_None(image) == {}

\* VkPresentInfoKHR.pWaitSemaphores: indices into renderCompleteSemaphores
PresentWaitSemaphores(image) == {image}

\* VkSubmitInfo2.pSignalSemaphoreInfos: the binary semaphore signalled
SubmitSignalSemaphores(image) == {image}

TimelineSignalValue_SlotIndex(f) == f % MaxFramesInFlight

\* VkSemaphoreSubmitInfo of the timeline semaphore: .value = frameId
TimelineSignalValue(f) == f

NextFrameId_Narrow(tv) == (tv + 1) % 4

\* uint64_t frameId = ++timelineValue
NextFrameId(tv) == tv + 1

EmptyTick ==
    [rebuilds |-> 0, inFlightAtTop |-> 0, reset |-> FALSE,
     recorded |-> FALSE, submitted |-> FALSE, presented |-> FALSE,
     swapchainAtAcquire |-> 0, submitSignal |-> {}, presentWait |-> {},
     presentImage |-> 0]

NoResize ==
    [pending |-> FALSE, presented |-> FALSE, cycles |-> 0,
     w |-> 0, h |-> 0, dw |-> 0, dh |-> 0]

SubmitOps(q) == {i \in DOMAIN q : q[i].kind = "submit"}
PresentOps(q) == {i \in DOMAIN q : q[i].kind = "present"}
RemoveAt(q, k) == [i \in 1 .. (Len(q) - 1) |-> IF i < k THEN q[i] ELSE q[i + 1]]

NoScLog ==
    [op |-> "none", prev |-> "none", ok |-> TRUE, extent |-> <<0, 0>>,
     changed |-> FALSE, released |-> {}, badRelease |-> FALSE, calls |-> 0]

NoPipeline == [layout |-> 0, handle |-> 0]

NoTransient == [local |-> 0, state |-> "none", executed |-> FALSE]

\* no scene step has run
\* the selection members before initialize(): physicalDevice is null
NoSelection ==
    [pc |-> "idle", physicalDevice |-> 0, gfxQueueFamIdx |-> 0,
     result |-> "none"]

ExtIdle ==
    /\ spc = "idle"
    /\ model = <<>>
    /\ meshes = <<>>
    /\ draws = <<>>
    /\ lpc = "idle"
    /\ transient = NoTransient
    /\ loadLog = <<>>
    /\ depthWriting = {}
    /\ physicalDevices = <<>>
    /\ sel = NoSelection

\* the render-loop specification starts inside run(), after a successful
\* initialize(); it does not follow object lifetimes or main()
BootIdle ==
    /\ live = {}
    /\ mpc = "run"
    /\ initSteps = <<>>
    /\ initResult = "true"
    /\ loopEntered = TRUE
    /\ exitCode = -1
    /\ pipeline = [layout |-> 1, handle |-> 1]
    /\ created = <<>>
    /\ released = <<>>
    /\ scLog = NoScLog
    /\ ExtIdle

\* ---------------------------------------------------------------- initial
\* the field initialisers of Application and an idle device
LoopInit ==
    /\ width = InitialWidth
    /\ height = InitialHeight
    /\ timelineValue = InitialTimelineValue
    /\ frameCounter = FrameCounterInit
    /\ requireSwapchainRecreate = FALSE
    /\ commandBuffer = [s \in Slots |-> [frame |-> 0, image |-> 0]]
    /\ pc = "poll"
    /\ frameResIndex = 0
    /\ frameId = 0
    /\ waitForId = 0
    /\ imageIndex = 0
    /\ acquireResult = "NONE"
    /\ semValue = InitialTimelineValue
    /\ queue = <<>>
    /\ acquireSignaled = [s \in Slots |-> FALSE]
    /\ renderSignaled = [i \in Images |-> FALSE]
    /\ imageOwner = [i \in Images |-> "engine"]
    /\ imageRender = [i \in Images |-> "none"]
    /\ ticks = 0
    /\ tick = EmptyTick
    /\ prevAcquire = "NONE"
    /\ presentResult = "NONE"
    /\ lastEvent = "none"
    /\ lastShown = [shown |-> FALSE, rendered |-> TRUE]
    /\ resize = NoResize

Init ==
    /\ LoopInit
    /\ running = TRUE
    /\ swapchainState = CreateSwapchain(NullSwapchain, InitialWidth, InitialHeight, 1)
    /\ handles = 1
    /\ BootIdle

\* ------------------------------------------------------------ the run loop
\* run(): one pass of the event loop; a quit or a resize event ends the
\* polling, and render() is called in every case
PollEvents ==
    /\ UNCHANGED bootVars
    /\ UNCHANGED extVars
    /\ pc = "poll"
    /\ running
    /\ \E ev \in {"none", "quit", "resize"}, e \in Extents :
          /\ (ticks >= MaxTicks => ev = "quit")
          /\ (ev # "resize" => e = InitialExtent)
          /\ running' = (ev # "quit")
          /\ width' = IF ev = "resize" THEN e[1] ELSE width
          /\ height' = IF ev = "resize" THEN e[2] ELSE height
          /\ lastEvent' = ev
          /\ resize' = IF ev = "resize"
                        THEN IF <<width, height>> = InitialExtent /\ e = ResizedExtent
                             THEN [NoResize EXCEPT !.pending = TRUE]
                             ELSE NoResize
                        ELSE resize
    /\ pc' = "rebuild"
    /\ tick' = [EmptyTick EXCEPT !.inFlightAtTop = Cardinality(SubmitOps(queue))]
    /\ prevAcquire' = acquireResult
    /\ acquireResult' = "NONE"
    /\ presentResult' = "NONE"
    /\ UNCHANGED <<timelineValue, frameCounter, requireSwapchainRecreate,
                   swapchainState, commandBuffer, frameResIndex, frameId,
                   waitForId, imageIndex, ticks, lastShown>>
    /\ UNCHANGED gpuVars

\* where control goes when render() returns
AfterRender == IF running THEN "poll" ELSE "shutdown"

\* render(): "first check if our swapchain is still valid"
RebuildCheck ==
    /\ UNCHANGED bootVars
    /\ UNCHANGED extVars
    /\ pc = "rebuild"
    /\ IF requireSwapchainRecreate
       THEN /\ DeviceIdle(queue)
            /\ swapchainState' = CreateSwapchain(DestroySwapchain(swapchainState),
                                                 width, height, handles + 1)
            /\ handles' = handles + 1
            /\ requireSwapchainRecreate' = FALSE
            /\ renderSignaled' = [i \in Images |-> FALSE]
            /\ imageOwner' = [i \in Images |-> "engine"]
            /\ imageRender' = [i \in Images |-> "none"]
            /\ tick' = [tick EXCEPT !.rebuilds = @ + 1]
            /\ resize' = IF resize.pending
                          THEN [resize EXCEPT !.cycles = @ + 1]
                          ELSE resize
       ELSE UNCHANGED <<swapchainState, handles, requireSwapchainRecreate,
                        renderSignaled, imageOwner, imageRender, tick, resize>>
    /\ pc' = "assign"
    /\ UNCHANGED <<width, height, running, timelineValue, frameCounter,
                   commandBuffer, semValue, queue, acquireSignaled,
                   ticks, prevAcquire, presentResult, lastEvent, lastShown>>
    /\ UNCHANGED localVars

\* render(): frame slot and frame id of this tick
AssignFrame ==
    /\ UNCHANGED bootVars
    /\ UNCHANGED extVars
    /\ pc = "assign"
    /\ frameResIndex' = FrameResIndex(frameCounter)
    /\ frameCounter' = frameCounter + 1
    /\ timelineValue' = NextFrameId(timelineValue)
    /\ frameId' = NextFrameId(timelineValue)
    /\ waitForId' = WaitForId(NextFrameId(timelineValue))
    /\ imageIndex' = 0
    /\ pc' = "wait"
    /\ UNCHANGED <<width, height, running, requireSwapchainRecreate,
                   swapchainState, commandBuffer, acquireResult>>
    /\ UNCHANGED <<gpuVars, obsVars>>

\* render(): vkWaitSemaphores on the timeline semaphore returns
WaitTimeline ==
    /\ UNCHANGED bootVars
    /\ UNCHANGED extVars
    /\ pc = "wait"
    /\ TimelineReached(semValue, waitForId)
    /\ pc' = "reset"
    /\ UNCHANGED <<appVars, localVars, gpuVars, obsVars>>

\* render(): vkResetCommandPool of the slot
ResetPool ==
    /\ UNCHANGED bootVars
    /\ UNCHANGED extVars
    /\ pc = "reset"
    /\ commandBuffer' = [commandBuffer EXCEPT ![frameResIndex] = [frame |-> 0, image |-> 0]]
    /\ tick' = [tick EXCEPT !.reset = TRUE]
    /\ pc' = "acquire"
    /\ UNCHANGED <<width, height, running, timelineValue, frameCounter,
                   requireSwapchainRecreate, swapchainState>>
    /\ UNCHANGED <<localVars, gpuVars>>
    /\ UNCHANGED <<ticks, prevAcquire, presentResult, lastEvent, lastShown, resize>>

\* render(): vkAcquireNextImageKHR and the handling of its result
Acquire ==
    /\ UNCHANGED bootVars
    /\ UNCHANGED extVars
    /\ pc = "acquire"
    /\ \E res \in AcquireResults :
          /\ acquireResult' = res
          /\ IF res = "OUT_OF_DATE"
             THEN /\ imageIndex' = 0
                  /\ UNCHANGED <<imageOwner, acquireSignaled>>
             ELSE \E img \in Images :
                     /\ imageOwner[img] = "engine"
                     /\ imageIndex' = img
                     /\ imageOwner' = [imageOwner EXCEPT ![img] = "app"]
                     /\ acquireSignaled' = [acquireSignaled EXCEPT ![frameResIndex] = TRUE]
          /\ requireSwapchainRecreate' = FlagAfterAcquire(res, requireSwapchainRecreate)
          /\ IF AbortsTick(res)
             THEN /\ pc' = AfterRender
                  /\ ticks' = ticks + 1
             ELSE /\ pc' = "record"
                  /\ ticks' = ticks
    /\ tick' = [tick EXCEPT !.swapchainAtAcquire = swapchainState.swapchain]
    /\ UNCHANGED <<width, height, running, timelineValue, frameCounter,
                   swapchainState, commandBuffer, frameResIndex, frameId,
                   waitForId, semValue, queue, renderSignaled, imageRender,
                   handles, prevAcquire, presentResult, lastEvent, lastShown,
                   resize>>

\* render(): vkBeginCommandBuffer .. vkEndCommandBuffer on the slot's buffer
Record ==
    /\ UNCHANGED bootVars
    /\ UNCHANGED extVars
    /\ pc = "record"
    /\ commandBuffer' = [commandBuffer EXCEPT ![frameResIndex] =
                            [frame |-> frameId, image |-> imageIndex]]
    /\ tick' = [tick EXCEPT !.recorded = TRUE]
    /\ pc' = "submit"
    /\ UNCHANGED <<width, height, running, timelineValue, frameCounter,
                   requireSwapchainRecreate, swapchainState>>
    /\ UNCHANGED <<localVars, gpuVars>>
    /\ UNCHANGED <<ticks, prevAcquire, presentResult, lastEvent, lastShown, resize>>

\* render(): vkQueueSubmit2, waiting on the slot's acquire semaphore and
\* signalling renderCompleteSemaphores[imageIndex] and the timeline to frameId
Submit ==
    /\ UNCHANGED bootVars
    /\ UNCHANGED extVars
    /\ pc = "submit"
    /\ queue' = Append(queue,
                   [kind |-> "submit", frame |-> TimelineSignalValue(frameId),
                    slot |-> frameResIndex,
                    image |-> commandBuffer[frameResIndex].image,
                    sems |-> SubmitSignalSemaphores(imageIndex),
                    swapchain |-> swapchainState.swapchain])
    /\ imageRender' = [imageRender EXCEPT ![commandBuffer[frameResIndex].image] = "pending"]
    /\ tick' = [tick EXCEPT !.submitted = TRUE,
                            !.submitSignal = SubmitSignalSemaphores(imageIndex)]
    /\ pc' = "present"
    /\ UNCHANGED <<appVars, localVars>>
    /\ UNCHANGED <<semValue, acquireSignaled, renderSignaled, imageOwner, handles>>
    /\ UNCHANGED <<ticks, prevAcquire, presentResult, lastEvent, lastShown, resize>>

\* render(): vkQueuePresentKHR; its result is discarded
Present ==
    /\ UNCHANGED bootVars
    /\ UNCHANGED extVars
    /\ pc = "present"
    /\ \E res \in PresentResults :
          /\ presentResult' = res
          /\ resize' = IF resize.pending /\ res = "SUCCESS"
                        THEN [resize EXCEPT !.pending = FALSE, !.presented = TRUE,
                                !.w = swapchainState.swapchainWidth,
                                !.h = swapchainState.swapchainHeight,
                                !.dw = swapchainState.depthWidth,
                                !.dh = swapchainState.depthHeight]
                        ELSE resize
    /\ queue' = Append(queue,
                   [kind |-> "present", frame |-> frameId, slot |-> frameResIndex,
                    image |-> imageIndex,
                    sems |-> PresentWaitSemaphores(imageIndex),
                    swapchain |-> swapchainState.swapchain])
    /\ tick' = [tick EXCEPT !.presented = TRUE,
                            !.presentWait = PresentWaitSemaphores(imageIndex),
                            !.presentImage = imageIndex]
    /\ ticks' = ticks + 1
    /\ pc' = AfterRender
    /\ UNCHANGED <<appVars, localVars>>
    /\ UNCHANGED <<semValue, acquireSignaled, renderSignaled, imageOwner,
                   imageRender, handles>>
    /\ UNCHANGED <<prevAcquire, lastEvent, lastShown>>

\* main(): shutdown() after the loop: vkDeviceWaitIdle, destroySwapchain
Shutdown ==
    /\ UNCHANGED bootVars
    /\ UNCHANGED extVars
    /\ pc = "shutdown"
    /\ DeviceIdle(queue)
    /\ swapchainState' = DestroySwapchain(swapchainState)
    /\ pc' = "done"
    /\ UNCHANGED <<width, height, running, timelineValue, frameCounter,
                   requireSwapchainRecreate, commandBuffer>>
    /\ UNCHANGED <<localVars, gpuVars, obsVars>>

\* ------------------------------------------------------------------ device
\* the queue executes the earliest submitted command buffer: it consumes the
\* acquire semaphore, runs the commands and signals both semaphores (signal
\* operations of successive submissions happen in submission order)
GpuExecuteSubmit ==
    /\ UNCHANGED bootVars
    /\ UNCHANGED extVars
    /\ SubmitOps(queue) # {}
    /\ LET k == CHOOSE i \in SubmitOps(queue) : \A j \in SubmitOps(queue) : i <= j
           op == queue[k]
       IN /\ acquireSignaled[op.slot]
          /\ queue' = RemoveAt(queue, k)
          /\ semValue' = op.frame
          /\ acquireSignaled' = [acquireSignaled EXCEPT ![op.slot] = FALSE]
          /\ renderSignaled' = [i \in Images |-> (i \in op.sems) \/ renderSignaled[i]]
          /\ imageRender' = [imageRender EXCEPT ![op.image] = "done"]
    /\ UNCHANGED <<pc, appVars, localVars, obsVars>>
    /\ UNCHANGED <<imageOwner, handles>>

\* a queued present executes once every semaphore it waits on is signalled;
\* it consumes the signals and hands the image to the presentation engine
GpuExecutePresent ==
    /\ UNCHANGED bootVars
    /\ UNCHANGED extVars
    /\ \E k \in PresentOps(queue) :
          LET op == queue[k]
          IN /\ \A s \in op.sems : renderSignaled[s]
             /\ queue' = RemoveAt(queue, k)
             /\ renderSignaled' = [i \in Images |-> renderSignaled[i] /\ (i \notin op.sems)]
             /\ imageOwner' = [imageOwner EXCEPT ![op.image] = "engine"]
             /\ lastShown' = [shown |-> TRUE,
                              rendered |-> imageRender[op.image] = "done"]
    /\ UNCHANGED <<pc, appVars, localVars>>
    /\ UNCHANGED <<semValue, acquireSignaled, imageRender, handles>>
    /\ UNCHANGED <<ticks, tick, prevAcquire, presentResult, lastEvent, resize>>

Next ==
    \/ PollEvents
    \/ RebuildCheck
    \/ AssignFrame
    \/ WaitTimeline
    \/ ResetPool
    \/ Acquire
    \/ Record
    \/ Submit
    \/ Present
    \/ Shutdown
    \/ GpuExecuteSubmit
    \/ GpuExecutePresent

Spec == Init /\ [][Next]_vars

\* the render loop with a GPU that executes whatever is executable and a CPU
\* thread that proceeds whenever its blocking wait can return
SpecLive ==
    /\ Spec
    /\ WF_vars(GpuExecuteSubmit)
    /\ WF_vars(GpuExecutePresent)
    /\ WF_vars(WaitTimeline)

\* ------------------------------------------- createSwapchain / destroySwapchain
\* The two functions called directly, in the orders the program calls them:
\* createSwapchain on the never-created or the just-destroyed state
\* (initializeVulkan, render), destroySwapchain on any state (render,
\* shutdown), each Vulkan call of createSwapchain being allowed to fail.
Constructed ==
    /\ LoopInit
    /\ running = FALSE
    /\ swapchainState = NullSwapchain
    /\ handles = 0
    /\ live = {}
    /\ initSteps = <<>>
    /\ initResult = "none"
    /\ loopEntered = FALSE
    /\ exitCode = -1
    /\ pipeline = NoPipeline
    /\ created = <<>>
    /\ released = <<>>
    /\ scLog = NoScLog
    /\ ExtIdle

InitSwapchainCalls ==
    /\ Constructed
    /\ mpc = "calls"

CallCreateSwapchain ==
    /\ mpc = "calls"
    /\ scLog.calls < MaxCalls
    /\ scLog.op \in {"none", "destroy"}
    /\ \E e \in Extents, fail \in FailPoints :
          LET after == CreateSwapchainAt(swapchainState, e[1], e[2], handles + 1, fail)
          IN /\ swapchainState' = after
             /\ live' = live \cup CreatedBy(after, handles + 1)
             /\ scLog' = [op |-> "create", prev |-> scLog.op,
                          ok |-> fail[1] = "none", extent |-> e,
                          changed |-> after # swapchainState, released |-> {},
                          badRelease |-> scLog.badRelease,
                          calls |-> scLog.calls + 1]
    /\ handles' = handles + 1
    /\ UNCHANGED <<mpc, initSteps, initResult, loopEntered, exitCode, pipeline,
                   created, released>>
    /\ UNCHANGED renderVars
    /\ UNCHANGED extVars

CallDestroySwapchain ==
    /\ mpc = "calls"
    /\ scLog.calls < MaxCalls
    /\ swapchainState' = DestroySwapchain(swapchainState)
    /\ live' = live \ ReleasedBy(swapchainState)
    /\ scLog' = [op |-> "destroy", prev |-> scLog.op, ok |-> TRUE,
                 extent |-> scLog.extent,
                 changed |-> DestroySwapchain(swapchainState) # swapchainState,
                 released |-> ReleasedBy(swapchainState),
                 badRelease |-> scLog.badRelease
                                  \/ ~(ReleasedBy(swapchainState) \subseteq live),
                 calls |-> scLog.calls + 1]
    /\ UNCHANGED <<handles, mpc, initSteps, initResult, loopEntered, exitCode,
                   pipeline, created, released>>
    /\ UNCHANGED renderVars
    /\ UNCHANGED extVars

NextSwapchainCalls ==
    \/ CallCreateSwapchain
    \/ CallDestroySwapchain

SpecSwapchain == InitSwapchainCalls /\ [][NextSwapchainCalls]_vars

\* ------------------------------------------------- failing calls in a tick
\* The render loop in which vkAcquireNextImageKHR may also return an error
\* other than VK_ERROR_OUT_OF_DATE_KHR and the createSwapchain of the rebuild
\* may fail; scLog records the failed call.
\* render(): the acquire returns e.g. VK_ERROR_SURFACE_LOST_KHR; neither
\* branch of the result test is taken, imageIndex keeps its initial value
\* (the first image) and the acquire semaphore is not signalled
AcquireError ==
    /\ pc = "acquire"
    /\ scLog.calls < MaxFaults
    /\ acquireResult' = "ERROR"
    /\ imageIndex' = 1
    /\ requireSwapchainRecreate' = FlagAfterAcquire("ERROR", requireSwapchainRecreate)
    /\ pc' = IF AbortsTick("ERROR") THEN AfterRender ELSE "record"
    /\ ticks' = IF AbortsTick("ERROR") THEN ticks + 1 ELSE ticks
    /\ tick' = [tick EXCEPT !.swapchainAtAcquire = swapchainState.swapchain]
    /\ scLog' = [scLog EXCEPT !.op = "vkAcquireNextImageKHR", !.ok = FALSE,
                              !.calls = @ + 1]
    /\ UNCHANGED <<width, height, running, timelineValue, frameCounter,
                   swapchainState, commandBuffer, frameResIndex, frameId,
                   waitForId, semValue, queue, renderSignaled, imageRender,
                   imageOwner, acquireSignaled, handles, prevAcquire,
                   presentResult, lastEvent, lastShown, resize>>
    /\ UNCHANGED <<live, mpc, initSteps, initResult, loopEntered, exitCode,
                   pipeline, created, released>>
    /\ UNCHANGED extVars

\* render(): the rebuild at the top of the tick, createSwapchain returning
\* false; the return value is not read
RebuildFails ==
    /\ pc = "rebuild"
    /\ requireSwapchainRecreate
    /\ scLog.calls < MaxFaults
    /\ DeviceIdle(queue)
    /\ \E fail \in FailPoints \ {<<"none", 0>>} :
          swapchainState' = CreateSwapchainAt(DestroySwapchain(swapchainState),
                                              width, height, handles + 1, fail)
    /\ handles' = handles + 1
    /\ requireSwapchainRecreate' = FALSE
    /\ renderSignaled' = [i \in Images |-> FALSE]
    /\ imageOwner' = [i \in Images |-> "engine"]
    /\ imageRender' = [i \in Images |-> "none"]
    /\ tick' = [tick EXCEPT !.rebuilds = @ + 1]
    /\ scLog' = [scLog EXCEPT !.op = "createSwapchain", !.ok = FALSE,
                              !.extent = <<width, height>>, !.calls = @ + 1]
    /\ pc' = "assign"
    /\ UNCHANGED <<width, height, running, timelineValue, frameCounter,
                   commandBuffer, semValue, queue, acquireSignaled,
                   ticks, prevAcquire, presentResult, lastEvent, lastShown,
                   resize>>
    /\ UNCHANGED localVars
    /\ UNCHANGED <<live, mpc, initSteps, initResult, loopEntered, exitCode,
                   pipeline, created, released>>
    /\ UNCHANGED extVars

\* render(): vkAcquireNextImageKHR on the null swapchain handle that a failed
\* vkCreateSwapchainKHR leaves is undefined; besides returning any result
\* (Acquire, AcquireError) the process may die in the call
AcquireCrash ==
    /\ pc = "acquire"
    /\ swapchainState.swapchain = 0
    /\ pc' = "crashed"
    /\ UNCHANGED <<appVars, localVars, gpuVars, obsVars, bootVars>>
    /\ UNCHANGED extVars

NextFault ==
    \/ Next
    \/ AcquireError
    \/ RebuildFails
    \/ AcquireCrash

SpecFault == Init /\ [][NextFault]_vars

\* ------------------------------------------------ main: initialize .. shutdown
\* main() from the constructed Application to the end of the process:
\* initialize() (window, the steps of initializeVulkan, loadModel), the
\* render loop as one step, shutdown(), return.  Every creation call may
\* fail.  Objects are <<kind, index, handle>>; created and released log them
\* in the order of the calls.
InitSequence ==
    <<"createVulkanInstance", "createSurface", "findPhysicalDevice",
      "findGraphicsQueue", "createDevice", "initializeVMA", "createSwapchain",
      "createShaders", "createGraphicsPipeline", "createSyncResources",
      "createCommandBuffers">>

FullSequence == <<"createWindow">> \o InitSequence \o <<"loadModel">>

StepIndex(step) == CHOOSE k \in DOMAIN FullSequence : FullSequence[k] = step

Obj(kind) == <<kind, 0, 1>>

PerFrame(kind) == [i \in 1 .. MaxFramesInFlight |-> <<kind, i - 1, 1>>]

Range(q) == {q[i] : i \in DOMAIN q}

\* the objects a step creates, in the order of its creation calls
StepObjects(step) ==
    CASE step = "createWindow" -> <<Obj("window")>>
      [] step = "createVulkanInstance" -> <<Obj("instance")>>
      [] step = "createSurface" -> <<Obj("surface")>>
      [] step = "createDevice" -> <<Obj("device")>>
      [] step = "initializeVMA" -> <<Obj("allocator")>>
      [] step = "createShaders" -> <<Obj("vertShader"), Obj("fragShader")>>
      [] step = "createGraphicsPipeline" -> <<Obj("pipelineLayout"), Obj("pipeline")>>
      [] step = "createSyncResources" ->
            <<Obj("timelineSemaphore")>> \o PerFrame("imageAcquiredSemaphore")
      [] step = "createCommandBuffers" ->
            <<Obj("commandPool")>> \o PerFrame("frameCommandPool")
      [] OTHER -> <<>>

\* how many of its objects a step has created when it returns failure:
\* the call that fails creates nothing, the ones before it are not undone;
\* createCommandBuffers can also fail in vkAllocateCommandBuffers, with the
\* frame's pool created
FailPrefixes(step) ==
    IF step = "createCommandBuffers"
    THEN 0 .. Len(StepObjects(step))
    ELSE IF StepObjects(step) = <<>>
         THEN {0}
         ELSE 0 .. (Len(StepObjects(step)) - 1)

\* where main() is after a step returned
AfterStep_IgnoresFailure(step, ok) ==
    IF step = "loadModel"
    THEN "returned"
    ELSE FullSequence[StepIndex(step) + 1]

AfterStep(step, ok) ==
    IF step = "loadModel"
    THEN "returned"
    ELSE IF ok THEN FullSequence[StepIndex(step) + 1] ELSE "returned"

\* initialize()'s return value once main() is at "returned"
InitializeResult(step, ok, before) ==
    IF AfterStep(step, ok) = "returned"
    THEN IF step = "loadModel" THEN "true" ELSE "false"
    ELSE before

\* a step of initialize()/initializeVulkan() that only creates objects
InitStep(step) ==
    /\ mpc = step
    /\ \E ok \in BOOLEAN :
          \E n \in IF ok THEN {Len(StepObjects(step))} ELSE FailPrefixes(step) :
             /\ initSteps' = Append(initSteps, [step |-> step, ok |-> ok])
             /\ created' = created \o SubSeq(StepObjects(step), 1, n)
             /\ live' = live \cup Range(SubSeq(StepObjects(step), 1, n))
             /\ mpc' = AfterStep(step, ok)
             /\ initResult' = InitializeResult(step, ok, initResult)
    /\ UNCHANGED <<loopEntered, exitCode, released, scLog>>
    /\ UNCHANGED <<swapchainState, handles>>
    /\ UNCHANGED renderVars
    /\ UNCHANGED extVars

CreateWindow == InitStep("createWindow") /\ UNCHANGED pipeline

CreateVulkanInstance == InitStep("createVulkanInstance") /\ UNCHANGED pipeline

CreateSurface == InitStep("createSurface") /\ UNCHANGED pipeline

FindPhysicalDevice == InitStep("findPhysicalDevice") /\ UNCHANGED pipeline

FindGraphicsQueue == InitStep("findGraphicsQueue") /\ UNCHANGED pipeline

CreateDevice == InitStep("createDevice") /\ UNCHANGED pipeline

InitializeVMA == InitStep("initializeVMA") /\ UNCHANGED pipeline

CreateShaders == InitStep("createShaders") /\ UNCHANGED pipeline

\* createGraphicsPipeline() returns its local Pipeline on success and
\* Pipeline{} on either failure; initializeVulkan stores what it returns
CreateGraphicsPipeline ==
    /\ InitStep("createGraphicsPipeline")
    /\ pipeline' = IF initSteps'[Len(initSteps')].ok
                   THEN [layout |-> 1, handle |-> 1]
                   ELSE NoPipeline

CreateSyncResources == InitStep("createSyncResources") /\ UNCHANGED pipeline

CreateCommandBuffers == InitStep("createCommandBuffers") /\ UNCHANGED pipeline

SeqOfHandles(kind, v) ==
    SelectSeq([i \in 1 .. Len(v) |-> <<kind, i, v[i]>>], LAMBDA o : o[3] # 0)

\* createSwapchain's objects of generation n in the order it creates them
CreateSwapchainOrder(s, n) ==
    SelectSeq((IF s.swapchain # 0 THEN <<<<"swapchain", 0, s.swapchain>>>> ELSE <<>>)
                \o SeqOfHandles("view", s.swapchainImageViews)
                \o SeqOfHandles("semaphore", s.renderCompleteSemaphores)
                \o (IF s.depthImage # 0 THEN <<<<"depthImage", 0, s.depthImage>>>> ELSE <<>>)
                \o (IF s.depthImageView # 0 THEN <<<<"depthView", 0, s.depthImageView>>>> ELSE <<>>),
              LAMBDA o : o[3] = n)

\* destroySwapchain's releases in the order of its calls
DestroySwapchainOrder(s) ==
    SeqOfHandles("view", s.swapchainImageViews)
      \o SeqOfHandles("semaphore", s.renderCompleteSemaphores)
      \o (IF s.swapchain # 0 THEN <<<<"swapchain", 0, s.swapchain>>>> ELSE <<>>)
      \o (IF s.depthImageView # 0
          THEN <<<<"depthView", 0, s.depthImageView>>>>
                 \o (IF s.depthImage # 0
                     THEN <<<<"depthImage", 0, s.depthImage>>>> ELSE <<>>)
          ELSE <<>>)

\* initializeVulkan(): createSwapchain(width, height)
InitCreateSwapchain ==
    /\ mpc = "createSwapchain"
    /\ \E fail \in FailPoints :
          LET after == CreateSwapchainAt(swapchainState, width, height, handles + 1, fail)
              ok == fail[1] = "none"
          IN /\ swapchainState' = after
             /\ initSteps' = Append(initSteps, [step |-> "createSwapchain", ok |-> ok])
             /\ created' = created \o CreateSwapchainOrder(after, handles + 1)
             /\ live' = live \cup CreatedBy(after, handles + 1)
             /\ mpc' = AfterStep("createSwapchain", ok)
             /\ initResult' = InitializeResult("createSwapchain", ok, initResult)
    /\ handles' = handles + 1
    /\ UNCHANGED <<loopEntered, exitCode, pipeline, released, scLog>>
    /\ UNCHANGED renderVars
    /\ UNCHANGED extVars

\* the creation call of loadModel() that fails
LoadFailPoints ==
    {<<"none", 0>>, <<"transient", 0>>, <<"vertexBuffer", 0>>, <<"indexBuffer", 0>>}
      \cup {<<"image", k>> : k \in 1 .. NumSceneImages}
      \cup {<<"imageView", k>> : k \in 1 .. NumSceneImages}

SceneImage(k) == <<<<"sceneImage", k, 1>>, <<"sceneImageView", k, 1>>>>

RECURSIVE SceneImages(_)
SceneImages(k) == IF k = 0 THEN <<>> ELSE SceneImages(k - 1) \o SceneImage(k)

\* the objects loadModel() creates: the images up to the first failing
\* createImage (whose image stays allocated when only its view failed),
\* then the two buffers whatever happened before
LoadModelObjects(fail) ==
    (CASE fail[1] = "transient" -> <<>>
       [] fail[1] = "image" -> SceneImages(fail[2] - 1)
       [] fail[1] = "imageView" ->
             SceneImages(fail[2] - 1) \o <<<<"sceneImage", fail[2], 1>>>>
       [] OTHER -> SceneImages(NumSceneImages))
      \o (IF fail[1] = "vertexBuffer" THEN <<>> ELSE <<Obj("vertexBuffer")>>)
      \o (IF fail[1] = "indexBuffer" THEN <<>> ELSE <<Obj("indexBuffer")>>)

\* initialize(): loadModel(); return true.  loadModel returns nothing.  A
\* failed vmaCreateBuffer leaves a null allocation that is then mapped and
\* written through, which is undefined: the process may die there
LoadModel ==
    /\ mpc = "loadModel"
    /\ \E fail \in LoadFailPoints, dies \in BOOLEAN :
          /\ dies => fail[1] \in {"vertexBuffer", "indexBuffer"}
          /\ initSteps' = Append(initSteps, [step |-> "loadModel",
                                             ok |-> fail[1] = "none"])
          /\ created' = created \o LoadModelObjects(fail)
          /\ live' = live \cup Range(LoadModelObjects(fail))
          /\ mpc' = IF dies THEN "crashed" ELSE AfterStep("loadModel", fail[1] = "none")
          /\ initResult' = IF dies THEN initResult
                           ELSE InitializeResult("loadModel", fail[1] = "none", initResult)
    /\ UNCHANGED <<loopEntered, exitCode, pipeline, released, scLog>>
    /\ UNCHANGED <<swapchainState, handles>>
    /\ UNCHANGED renderVars
    /\ UNCHANGED extVars

\* main(): if (app.initialize()) app.start();  the loop runs until quit
MainBranch ==
    /\ mpc = "returned"
    /\ mpc' = "shutdown"
    /\ loopEntered' = (initResult = "true")
    /\ UNCHANGED <<live, initSteps, initResult, exitCode, pipeline, created,
                   released, scLog>>
    /\ UNCHANGED <<swapchainState, handles>>
    /\ UNCHANGED renderVars
    /\ UNCHANGED extVars

\* the images that are in the images vector: those whose view was created
TrackedSceneImages(lv) ==
    SelectSeq(SceneImages(NumSceneImages),
              LAMBDA o : <<"sceneImageView", o[2], 1>> \in lv)

\* the handles shutdown() visits, in the order of the code
ShutdownSequence(lv, s, p) ==
    TrackedSceneImages(lv)
        \o <<Obj("commandPool"), Obj("vertexBuffer"), Obj("indexBuffer"),
             Obj("timelineSemaphore")>>
        \o [i \in 1 .. (2 * MaxFramesInFlight) |->
              IF i % 2 = 1
              THEN <<"imageAcquiredSemaphore", (i - 1) \div 2, 1>>
              ELSE <<"frameCommandPool", (i - 1) \div 2, 1>>]
        \o (IF p.layout # 0 THEN <<Obj("pipelineLayout")>> ELSE <<>>)
        \o (IF p.handle # 0 THEN <<Obj("pipeline")>> ELSE <<>>)
        \o <<Obj("vertShader"), Obj("fragShader")>>
        \o DestroySwapchainOrder(s)
        \o <<Obj("allocator"), Obj("surface"), Obj("device"),
             Obj("instance"), Obj("window")>>

\* the destroy calls of shutdown() on non-null handles, in the order of the
\* code; the pipeline handles are those of the pipeline member
ShutdownOrder(lv, s, p) ==
    SelectSeq(ShutdownSequence(lv, s, p), LAMBDA o : o \in lv)

\* the handles shutdown() passes to a destroy call without testing them
UntestedKinds ==
    {"commandPool", "vertexBuffer", "indexBuffer", "imageAcquiredSemaphore",
     "frameCommandPool"}

\* the handle a destroy call is made through: its first argument
DispatchHandle(o) ==
    IF o[1] \in {"sceneImage", "depthImage", "vertexBuffer", "indexBuffer"}
    THEN Obj("allocator")
    ELSE IF o[1] = "surface" THEN Obj("instance")
    ELSE IF o[1] \in {"allocator", "device", "instance", "window"} THEN o
    ELSE Obj("device")

\* every call shutdown() issues, null handles included: vkDeviceWaitIdle,
\* then a destroy call for each handle that is non-null or is not tested
ShutdownCalls(lv, s, p) ==
    LET issued == SelectSeq(ShutdownSequence(lv, s, p),
                            LAMBDA o : o \in lv \/ o[1] \in UntestedKinds)
    IN  <<[call |-> "vkDeviceWaitIdle", via |-> Obj("device"),
           on |-> Obj("device")]>>
        \o [i \in 1 .. Len(issued) |->
              [call |-> "destroy", via |-> DispatchHandle(issued[i]),
               on |-> issued[i]]]

\* main(): app.shutdown()
MainShutdown ==
    /\ mpc = "shutdown"
    /\ released' = ShutdownOrder(live, swapchainState, pipeline)
    /\ live' = live \ Range(ShutdownOrder(live, swapchainState, pipeline))
    /\ swapchainState' = DestroySwapchain(swapchainState)
    /\ mpc' = "return"
    /\ UNCHANGED <<initSteps, initResult, loopEntered, exitCode, pipeline,
                   created, scLog, handles>>
    /\ UNCHANGED renderVars
    /\ UNCHANGED extVars

\* shutdown() calls vkDeviceWaitIdle, vkDestroyCommandPool, vmaDestroyBuffer
\* without testing device and vmaAllocator; with either of them null the
\* calls are undefined and the process may die instead of going on
ShutdownCrash ==
    /\ mpc = "shutdown"
    /\ Obj("device") \notin live \/ Obj("allocator") \notin live
    /\ mpc' = "crashed"
    /\ UNCHANGED <<live, initSteps, initResult, loopEntered, exitCode, pipeline,
                   created, released, scLog>>
    /\ UNCHANGED <<swapchainState, handles>>
    /\ UNCHANGED renderVars
    /\ UNCHANGED extVars

\* main(): return 0
MainReturns ==
    /\ mpc = "return"
    /\ exitCode' = 0
    /\ mpc' = "exited"
    /\ UNCHANGED <<live, initSteps, initResult, loopEntered, pipeline,
                   created, released, scLog>>
    /\ UNCHANGED <<swapchainState, handles>>
    /\ UNCHANGED renderVars
    /\ UNCHANGED extVars

InitMain ==
    /\ Constructed
    /\ mpc = "createWindow"

NextInit ==
    \/ CreateWindow
    \/ CreateVulkanInstance
    \/ CreateSurface
    \/ FindPhysicalDevice
    \/ FindGraphicsQueue
    \/ CreateDevice
    \/ InitializeVMA
    \/ InitCreateSwapchain
    \/ CreateShaders
    \/ CreateGraphicsPipeline
    \/ CreateSyncResources
    \/ CreateCommandBuffers
    \/ LoadModel
    \/ MainBranch
    \/ MainShutdown
    \/ ShutdownCrash
    \/ MainReturns

SpecInit == InitMain /\ [][NextInit]_vars

\* ------------------------------------------------------ scene: load and draw
\* The mesh part of loadModel() and the draw loop of render() on glTF models
\* of a few meshes and primitives.  A primitive is the number of its POSITION
\* elements, the number of its indices (-1: none) and their component type.
Primitives ==
    {[position |-> 3, indices |-> 300, componentType |-> "UNSIGNED_INT"],
     [position |-> 4, indices |-> 200, componentType |-> "UNSIGNED_SHORT"],
     [position |-> 4, indices |-> 300, componentType |-> "UNSIGNED_BYTE"],
     [position |-> 3, indices |-> -1, componentType |-> "NONE"]}

SeqsUpTo(S, n) == UNION {[1 .. k -> S] : k \in 1 .. n}

Models == SeqsUpTo(SeqsUpTo(Primitives, MaxPrimitives), MaxMeshes)

\* a default-constructed Renderer::SubMesh
NewSubMesh == [vertexStart |-> 0, indexStart |-> 0, vertexCount |-> 0, indexCount |-> 0]

\* loadModel(): one primitive, with vsize vertices and isize indices loaded
\* before it; gives the sub-mesh and the new sizes of the two arrays
LoadPrimitive(prim, vsize, isize) ==
    [sub |-> [NewSubMesh EXCEPT
                !.vertexStart = vsize,
                !.indexStart = isize,
                !.vertexCount = @ + prim.position,
                !.indexCount = IF prim.indices # -1 THEN prim.indices ELSE @],
     vsize |-> vsize + prim.position,
     isize |-> isize + (IF prim.indices # -1
                           /\ prim.componentType \in {"UNSIGNED_INT", "UNSIGNED_SHORT"}
                        THEN prim.indices ELSE 0)]

RECURSIVE LoadPrimitives(_, _, _, _)
LoadPrimitives(prims, k, vsize, isize) ==
    IF k > Len(prims)
    THEN [subMeshes |-> <<>>, vsize |-> vsize, isize |-> isize]
    ELSE LET one == LoadPrimitive(prims[k], vsize, isize)
             rest == LoadPrimitives(prims, k + 1, one.vsize, one.isize)
         IN [subMeshes |-> <<one.sub>> \o rest.subMeshes,
             vsize |-> rest.vsize, isize |-> rest.isize]

\* loadModel(): "load all meshes first"
RECURSIVE LoadMeshes(_, _, _, _)
LoadMeshes(m, k, vsize, isize) ==
    IF k > Len(m)
    THEN <<>>
    ELSE LET one == LoadPrimitives(m[k], 1, vsize, isize)
         IN <<[subMeshes |-> one.subMeshes]>>
              \o LoadMeshes(m, k + 1, one.vsize, one.isize)

\* render(): vkCmdDrawIndexed(commandBuffer, sub.indexCount, 1, sub.indexStart,
\* sub.vertexStart, 0)
DrawIndexed_SwappedStarts(sub) ==
    [indexCount |-> sub.indexCount, instanceCount |-> 1,
     firstIndex |-> sub.vertexStart, vertexOffset |-> sub.indexStart,
     firstInstance |-> 0]

DrawIndexed(sub) ==
    [indexCount |-> sub.indexCount, instanceCount |-> 1,
     firstIndex |-> sub.indexStart, vertexOffset |-> sub.vertexStart,
     firstInstance |-> 0]

RECURSIVE DrawSubMeshes(_, _)
DrawSubMeshes(subs, k) ==
    IF k > Len(subs) THEN <<>>
    ELSE <<DrawIndexed(subs[k])>> \o DrawSubMeshes(subs, k + 1)

\* render(): the loops over meshes and mesh.subMeshes
RECURSIVE DrawMeshes(_, _)
DrawMeshes(ms, k) ==
    IF k > Len(ms) THEN <<>>
    ELSE DrawSubMeshes(ms[k].subMeshes, 1) \o DrawMeshes(ms, k + 1)

InitScene ==
    /\ LoopInit
    /\ running = FALSE
    /\ swapchainState = NullSwapchain
    /\ handles = 0
    /\ live = {}
    /\ mpc = "scene"
    /\ initSteps = <<>>
    /\ initResult = "none"
    /\ loopEntered = FALSE
    /\ exitCode = -1
    /\ pipeline = NoPipeline
    /\ created = <<>>
    /\ released = <<>>
    /\ scLog = NoScLog
    /\ spc = "load"
    /\ model \in Models
    /\ meshes = <<>>
    /\ draws = <<>>
    /\ lpc = "idle"
    /\ transient = NoTransient
    /\ loadLog = <<>>
    /\ depthWriting = {}
    /\ physicalDevices = <<>>
    /\ sel = NoSelection

SceneUnchanged ==
    /\ UNCHANGED <<lpc, transient, loadLog, depthWriting, physicalDevices, sel>>
    /\ UNCHANGED <<swapchainState, handles>>
    /\ UNCHANGED bootVars
    /\ UNCHANGED renderVars

\* loadModel(): the meshes of the model
SceneLoadMeshes ==
    /\ spc = "load"
    /\ meshes' = LoadMeshes(model, 1, 0, 0)
    /\ spc' = "loaded"
    /\ UNCHANGED <<model, draws>>
    /\ SceneUnchanged

\* render(): vkBeginCommandBuffer on the slot's reset command buffer
SceneBeginFrame ==
    /\ spc \in {"loaded", "recorded"}
    /\ draws' = <<>>
    /\ spc' = "recording"
    /\ UNCHANGED <<model, meshes>>
    /\ SceneUnchanged

\* render(): the draw calls of the frame
SceneRecordDraws ==
    /\ spc = "recording"
    /\ draws' = draws \o DrawMeshes(meshes, 1)
    /\ spc' = "recorded"
    /\ UNCHANGED <<model, meshes>>
    /\ SceneUnchanged

NextScene ==
    \/ SceneLoadMeshes
    \/ SceneBeginFrame
    \/ SceneRecordDraws

SpecScene == InitScene /\ [][NextScene]_vars

\* ------------------------------------------------- loadModel(), call by call
\* The image upload of loadModel() through the transient command buffer, and
\* the two buffer creations, every call being allowed to fail.  The graphics
\* queue is the one of the render loop; nothing else is on it during load.
renderVarsNoQueue ==
    <<width, height, running, timelineValue, frameCounter,
      requireSwapchainRecreate, commandBuffer, pc, frameResIndex,
      frameId, waitForId, imageIndex, acquireResult, semValue,
      acquireSignaled, renderSignaled, imageOwner,
      imageRender, ticks, tick, prevAcquire, presentResult,
      lastEvent, lastShown, resize>>

LoadUnchanged ==
    /\ UNCHANGED <<spc, model, meshes, draws, depthWriting, physicalDevices, sel>>
    /\ UNCHANGED <<swapchainState, handles>>
    /\ UNCHANGED bootVars
    /\ UNCHANGED renderVarsNoQueue

UploadOps(q) == {i \in DOMAIN q : q[i].kind = "upload"}

\* vkQueueWaitIdle(gfxQueue) returns
QueueIdle_NoWait(q) == TRUE

QueueIdle(q) == q = <<>>

InitLoad ==
    /\ LoopInit
    /\ running = FALSE
    /\ swapchainState = CreateSwapchain(NullSwapchain, InitialWidth, InitialHeight, 1)
    /\ handles = 1
    /\ live = {}
    /\ mpc = "loadModel"
    /\ initSteps = <<>>
    /\ initResult = "none"
    /\ loopEntered = FALSE
    /\ exitCode = -1
    /\ pipeline = [layout |-> 1, handle |-> 1]
    /\ created = <<>>
    /\ released = <<>>
    /\ scLog = NoScLog
    /\ spc = "idle"
    /\ model = <<>>
    /\ meshes = <<>>
    /\ draws = <<>>
    /\ lpc = "startTransient"
    /\ transient = NoTransient
    /\ loadLog = <<>>
    /\ depthWriting = {}
    /\ physicalDevices = <<>>
    /\ sel = NoSelection

\* startTransientCommandBuffer(): allocate and begin; either failure returns
\* nullptr (a buffer allocated before a failed begin is not freed)
StartTransientCommandBuffer ==
    /\ lpc = "startTransient"
    /\ \E outcome \in {"ok", "allocateFails", "beginFails"} :
          /\ transient' = [local |-> IF outcome = "ok" THEN 1 ELSE 0,
                           state |-> CASE outcome = "ok" -> "recording"
                                       [] outcome = "beginFails" -> "initial"
                                       [] OTHER -> "none",
                           executed |-> FALSE]
          /\ loadLog' = loadLog \o (IF outcome = "allocateFails"
                                    THEN <<"vkAllocateCommandBuffers">>
                                    ELSE <<"vkAllocateCommandBuffers", "vkBeginCommandBuffer">>)
    /\ lpc' = "images"
    /\ UNCHANGED queue
    /\ LoadUnchanged

\* loadModel(): if (commandBuffer) createImage for each image of the model,
\* up to the first that fails
LoadImages ==
    /\ lpc = "images"
    /\ \E n \in 0 .. NumSceneImages, failed \in BOOLEAN :
          /\ (transient.local = 0 => n = 0 /\ ~failed)
          /\ (failed => n < NumSceneImages)
          /\ loadLog' = loadLog \o [i \in 1 .. n |-> "createImage"]
                                \o (IF failed THEN <<"createImage failed">> ELSE <<>>)
    /\ lpc' = "end"
    /\ UNCHANGED <<transient, queue>>
    /\ LoadUnchanged

\* submitTransientCommandBuffer(): vkEndCommandBuffer; on the null handle of
\* a failed start the call is undefined and the process may die in it
EndTransientCommandBuffer ==
    /\ lpc = "end"
    /\ \E dies \in BOOLEAN :
          /\ dies => transient.local = 0
          /\ lpc' = IF dies THEN "crashed" ELSE "submit"
    /\ transient' = IF transient.local # 0
                    THEN [transient EXCEPT !.state = "executable"]
                    ELSE transient
    /\ loadLog' = Append(loadLog, "vkEndCommandBuffer")
    /\ UNCHANGED queue
    /\ LoadUnchanged

\* submitTransientCommandBuffer(): vkQueueSubmit, its result is not read
QueueSubmitTransient ==
    /\ lpc = "submit"
    /\ \E accepted \in BOOLEAN, dies \in BOOLEAN :
          /\ dies => transient.local = 0
          /\ accepted => transient.local # 0
          /\ lpc' = IF dies THEN "crashed" ELSE "waitIdle"
          /\ queue' = IF accepted
                      THEN Append(queue, [kind |-> "upload", buffer |-> transient.local])
                      ELSE queue
          /\ transient' = IF accepted
                          THEN [transient EXCEPT !.state = "pending"]
                          ELSE transient
    /\ loadLog' = Append(loadLog, "vkQueueSubmit")
    /\ LoadUnchanged

\* the queue executes the upload submission to completion
GpuExecuteUpload ==
    /\ UploadOps(queue) # {}
    /\ queue' = Tail(queue)
    /\ transient' = [transient EXCEPT
                       !.state = IF @ = "pending" THEN "invalid" ELSE @,
                       !.executed = TRUE]
    /\ UNCHANGED <<lpc, loadLog>>
    /\ LoadUnchanged

\* submitTransientCommandBuffer(): vkQueueWaitIdle returns
QueueWaitIdleTransient ==
    /\ lpc = "waitIdle"
    /\ QueueIdle(queue)
    /\ lpc' = "free"
    /\ loadLog' = Append(loadLog, "vkQueueWaitIdle")
    /\ UNCHANGED <<transient, queue>>
    /\ LoadUnchanged

\* submitTransientCommandBuffer(): vkFreeCommandBuffers
FreeTransientCommandBuffer ==
    /\ lpc = "free"
    /\ transient' = IF transient.local # 0
                    THEN [transient EXCEPT !.state = "freed"]
                    ELSE transient
    /\ loadLog' = Append(loadLog, "vkFreeCommandBuffers")
    /\ lpc' = "vertexBuffer"
    /\ UNCHANGED queue
    /\ LoadUnchanged

\* loadModel(): createBuffer for vertexBuffer, then for indexBuffer; after a
\* failed vmaCreateBuffer the null allocation is mapped and written through,
\* which is undefined
LoadCreateBuffer ==
    /\ lpc \in {"vertexBuffer", "indexBuffer"}
    /\ \E ok \in BOOLEAN, dies \in BOOLEAN :
          /\ dies => ~ok
          /\ loadLog' = Append(loadLog, IF ok THEN "vmaCreateBuffer"
                                        ELSE "vmaCreateBuffer failed")
          /\ lpc' = IF dies THEN "crashed"
                    ELSE IF lpc = "vertexBuffer" THEN "indexBuffer" ELSE "done"
    /\ UNCHANGED <<transient, queue>>
    /\ LoadUnchanged

NextLoad ==
    \/ StartTransientCommandBuffer
    \/ LoadImages
    \/ EndTransientCommandBuffer
    \/ QueueSubmitTransient
    \/ GpuExecuteUpload
    \/ QueueWaitIdleTransient
    \/ FreeTransientCommandBuffer
    \/ LoadCreateBuffer

SpecLoad == InitLoad /\ [][NextLoad]_vars

\* --------------------------------------------------- the shared depth image
\* The render loop with the execution of a submission split in two: its
\* depth clear and depth writes begin, then the submission completes.  The
\* submissions of several frames in flight execute concurrently except where
\* a semaphore or a recorded barrier orders them.

\* the pipeline stages in which a depth attachment is cleared and written
DepthWriteStages == {"EARLY_FRAGMENT_TESTS", "LATE_FRAGMENT_TESTS"}

DepthBarrier_LikeColorBarrier ==
    [srcStageMask |-> {"COLOR_ATTACHMENT_OUTPUT"},
     srcAccessMask |-> {},
     dstStageMask |-> {"COLOR_ATTACHMENT_OUTPUT"},
     dstAccessMask |-> {"COLOR_ATTACHMENT_WRITE"},
     image |-> "depthImage"]

\* render(): layoutBarriers[1], recorded before vkCmdBeginRendering
DepthBarrier ==
    [srcStageMask |-> {"EARLY_FRAGMENT_TESTS", "LATE_FRAGMENT_TESTS"},
     srcAccessMask |-> {"DEPTH_STENCIL_ATTACHMENT_WRITE"},
     dstStageMask |-> {"EARLY_FRAGMENT_TESTS", "LATE_FRAGMENT_TESTS"},
     dstAccessMask |-> {"DEPTH_STENCIL_ATTACHMENT_WRITE"},
     image |-> "depthImage"]

\* the stages of imageAcquireWaitInfo: what waits for the acquire semaphore
AcquireWaitStages == {"COLOR_ATTACHMENT_OUTPUT", "EARLY_FRAGMENT_TESTS"}

\* a barrier recorded outside a render pass makes the depth writes after it
\* wait for the depth writes of everything submitted before it exactly when
\* its source scope holds the depth-writing stages with write access and its
\* destination scope holds them too
OrdersDepthWrites(b) ==
    /\ b.image = "depthImage"
    /\ DepthWriteStages \subseteq b.srcStageMask
    /\ "DEPTH_STENCIL_ATTACHMENT_WRITE" \in b.srcAccessMask
    /\ DepthWriteStages \subseteq b.dstStageMask
    /\ "DEPTH_STENCIL_ATTACHMENT_WRITE" \in b.dstAccessMask

\* frames that are writing the depth image now
DepthWriters == depthWriting \cap {queue[i].frame : i \in SubmitOps(queue)}

\* the submission of a frame reaches its fragment tests
GpuBeginDepthWrites ==
    /\ \E k \in SubmitOps(queue) :
          /\ queue[k].frame \notin depthWriting
          /\ ("EARLY_FRAGMENT_TESTS" \in AcquireWaitStages) =>
                acquireSignaled[queue[k].slot]
          /\ OrdersDepthWrites(DepthBarrier) =>
                \A j \in SubmitOps(queue) : j >= k
          /\ depthWriting' = depthWriting \cup {queue[k].frame}
    /\ UNCHANGED <<spc, model, meshes, draws, lpc, transient, loadLog,
                   physicalDevices, sel>>
    /\ UNCHANGED <<pc, appVars, localVars, gpuVars, obsVars, bootVars>>

\* the oldest submission completes, after its depth writes
GpuCompleteFrame ==
    /\ \A i \in SubmitOps(queue) :
          (\A j \in SubmitOps(queue) : i <= j) => queue[i].frame \in depthWriting
    /\ GpuExecuteSubmit

NextDepth ==
    \/ PollEvents
    \/ RebuildCheck
    \/ AssignFrame
    \/ WaitTimeline
    \/ ResetPool
    \/ Acquire
    \/ Record
    \/ Submit
    \/ Present
    \/ Shutdown
    \/ GpuBeginDepthWrites
    \/ GpuCompleteFrame
    \/ GpuExecutePresent

SpecDepth == Init /\ [][NextDepth]_vars

\* ------------------------------------------------ physical device selection
\* initialize(): findPhysicalDevice, findGraphicsQueue and createDevice over
\* the physical devices the instance enumerates.  A device is indexed from 1
\* in physicalDevices, a queue family from 1 in its families; 0 stands for
\* the null handle and for the unset gfxQueueFamIdx.

\* the features createDevice() checks before creating the device
RequiredFeatures == {"dynamicRendering", "synchronization2", "timelineSemaphore"}

DeviceTypes == {"DISCRETE_GPU", "INTEGRATED_GPU"}

QueueFamilies == [graphics : BOOLEAN, present : BOOLEAN]

FamilyLists == UNION {[1 .. n -> QueueFamilies] : n \in 0 .. MaxFamilies}

Devices ==
    [deviceType : DeviceTypes, families : FamilyLists,
     features : SUBSET RequiredFeatures]

DeviceLists == UNION {[1 .. n -> Devices] : n \in 0 .. MaxDevices}

\* the condition findGraphicsQueue() tests on a queue family
GraphicsWithPresent(fam) == fam.graphics /\ fam.present

\* the condition createDevice() tests on the supported features
MeetsFeatureRequirements(dev) == RequiredFeatures \subseteq dev.features

\* a device that passes both tests
Qualifies(dev) ==
    /\ \E f \in DOMAIN dev.families : GraphicsWithPresent(dev.families[f])
    /\ MeetsFeatureRequirements(dev)

\* the least index of a set of indices, 0 when there is none
FirstOf(S) == IF S = {} THEN 0 ELSE CHOOSE i \in S : \A j \in S : i <= j

\* findPhysicalDevice(): the first discrete GPU, else the first device,
\* else null
PickPhysicalDevice(devs) ==
    IF Len(devs) = 0 THEN 0
    ELSE LET discrete == {i \in DOMAIN devs :
                              devs[i].deviceType = "DISCRETE_GPU"}
         IN  IF discrete = {} THEN 1 ELSE FirstOf(discrete)

\* findGraphicsQueue(): the first family with graphics and presentation
PickGraphicsQueue(dev) ==
    FirstOf({f \in DOMAIN dev.families : GraphicsWithPresent(dev.families[f])})

SelectUnchanged ==
    /\ UNCHANGED <<spc, model, meshes, draws, lpc, transient, loadLog,
                   depthWriting, physicalDevices>>
    /\ UNCHANGED <<swapchainState, handles>>
    /\ UNCHANGED bootVars
    /\ UNCHANGED renderVars

InitSelect ==
    /\ LoopInit
    /\ running = FALSE
    /\ swapchainState = NullSwapchain
    /\ handles = 0
    /\ live = {}
    /\ mpc = "initialize"
    /\ initSteps = <<>>
    /\ initResult = "none"
    /\ loopEntered = FALSE
    /\ exitCode = -1
    /\ pipeline = NoPipeline
    /\ created = <<>>
    /\ released = <<>>
    /\ scLog = NoScLog
    /\ spc = "idle"
    /\ model = <<>>
    /\ meshes = <<>>
    /\ draws = <<>>
    /\ lpc = "idle"
    /\ transient = NoTransient
    /\ loadLog = <<>>
    /\ depthWriting = {}
    /\ physicalDevices \in DeviceLists
    /\ sel = [NoSelection EXCEPT !.pc = "findPhysicalDevice"]

SelectFindPhysicalDevice ==
    /\ sel.pc = "findPhysicalDevice"
    /\ LET chosen == PickPhysicalDevice(physicalDevices)
       IN  sel' = IF chosen = 0
                  THEN [sel EXCEPT !.pc = "done",
                                   !.result = "Unable to find an appropriate physical device"]
                  ELSE [sel EXCEPT !.pc = "findGraphicsQueue",
                                   !.physicalDevice = chosen]
    /\ SelectUnchanged

SelectFindGraphicsQueue ==
    /\ sel.pc = "findGraphicsQueue"
    /\ LET fam == PickGraphicsQueue(physicalDevices[sel.physicalDevice])
       IN  sel' = IF fam = 0
                  THEN [sel EXCEPT !.pc = "done",
                                   !.result = "Unable to find a compatible graphics queue"]
                  ELSE [sel EXCEPT !.pc = "createDevice",
                                   !.gfxQueueFamIdx = fam]
    /\ SelectUnchanged

\* createDevice(): the feature check, then vkCreateDevice, which may fail
SelectCreateDevice ==
    /\ sel.pc = "createDevice"
    /\ \E created_ok \in BOOLEAN :
          sel' = [sel EXCEPT
                    !.pc = "done",
                    !.result =
                       IF ~MeetsFeatureRequirements(physicalDevices[sel.physicalDevice])
                       THEN "Physical device doesn't meet the feature requirements"
                       ELSE IF created_ok THEN "device created"
                       ELSE "Couldn't create the logical GPU device"]
    /\ SelectUnchanged

NextSelect ==
    \/ SelectFindPhysicalDevice
    \/ SelectFindGraphicsQueue
    \/ SelectCreateDevice

SpecSelect == InitSelect /\ [][NextSelect]_vars

\* the outcomes in which initialize() fails for want of a suitable device
SelectionFailures ==
    {"Unable to find an appropriate physical device",
     "Unable to find a compatible graphics queue",
     "Physical device doesn't meet the feature requirements"}

TypeOK ==
    /\ pc \in {"poll", "rebuild", "assign", "wait", "reset", "acquire",
                "record", "submit", "present", "shutdown", "done"}
    /\ <<width, height>> \in Extents
    /\ frameResIndex \in Slots
    /\ imageIndex \in 0 .. NumImages

\* ------------------------------------------------------------------ claims
\* render() has returned and the next one has not begun
TickOver == pc \in {"poll", "shutdown", "done"}

\* frames submitted to the graphics queue whose timeline signal is outstanding
InFlightFrames == {queue[i].frame : i \in SubmitOps(queue)}

\* C1: at every instant, at most MaxFramesInFlight frames have been submitted
\* to the graphics queue without their completion having been signalled on
\* the timeline semaphore
C1_AtMostMaxFramesInFlight ==
    /\ Cardinality(InFlightFrames) <= MaxFramesInFlight
    /\ \A f \in InFlightFrames : f > semValue

\* the CPU is blocked in the backpressure wait with a full ring in flight
C1_Witness ==
    /\ pc = "wait"
    /\ ~TimelineReached(semValue, waitForId)
    /\ Cardinality(InFlightFrames) = MaxFramesInFlight

\* C2: from the return of the backpressure wait of frame F until its submit
\* (pool reset, acquire, recording) the timeline semaphore has reached
\* F - MaxFramesInFlight and no command buffer submitted from the same slot
\* is still incomplete on the queue
C2_SlotReusedOnlyWhenComplete ==
    pc \in {"reset", "acquire", "record", "submit"} =>
        /\ semValue >= frameId - MaxFramesInFlight
        /\ \A i \in SubmitOps(queue) : queue[i].slot # frameResIndex

\* a later frame records into its slot while the other slot is in flight
C2_Witness ==
    /\ pc = "submit"
    /\ tick.reset /\ tick.recorded
    /\ frameId > InitialTimelineValue + MaxFramesInFlight
    /\ SubmitOps(queue) # {}

\* C3: a tick whose acquire returned out-of-date records, submits and presents
\* nothing, and the following tick rebuilds the swapchain before it acquires
C3_OutOfDateAbortsAndRebuilds ==
    /\ acquireResult = "OUT_OF_DATE" =>
          /\ TickOver
          /\ ~tick.recorded /\ ~tick.submitted /\ ~tick.presented
          /\ \A i \in DOMAIN queue : queue[i].frame # frameId
          /\ commandBuffer[frameResIndex].frame = 0
    /\ (prevAcquire = "OUT_OF_DATE" /\ pc # "rebuild") => tick.rebuilds = 1

\* the tick after an out-of-date acquire is about to acquire, having rebuilt
C3_Witness ==
    /\ prevAcquire = "OUT_OF_DATE"
    /\ pc = "acquire"
    /\ tick.rebuilds = 1
    /\ swapchainState.swapchain > 1

\* C4: a tick whose acquire returned suboptimal records, submits and presents
\* the acquired image on the swapchain it acquired from, and the rebuild
\* happens at the top of the following tick
C4_SuboptimalRendersThenRebuilds ==
    /\ (acquireResult = "SUBOPTIMAL" /\ pc # "done") =>
          /\ swapchainState.swapchain = tick.swapchainAtAcquire
          /\ requireSwapchainRecreate
    /\ (acquireResult = "SUBOPTIMAL" /\ TickOver) =>
          /\ tick.recorded /\ tick.submitted /\ tick.presented
          /\ tick.presentImage = imageIndex
    /\ (prevAcquire = "SUBOPTIMAL" /\ pc # "rebuild") => tick.rebuilds = 1

\* a tick with a suboptimal acquire has presented and has not rebuilt since
C4_Witness ==
    /\ acquireResult = "SUBOPTIMAL"
    /\ pc = "poll"
    /\ tick.presented
    /\ tick.rebuilds = 0

\* C5: when the present of a tick reports out-of-date or suboptimal, the
\* needs-rebuild flag is set when that tick ends
C5_PresentResultFlagsRebuild ==
    presentResult \in {"OUT_OF_DATE", "SUBOPTIMAL"} => requireSwapchainRecreate

\* C6: after a window-resized event has been polled the needs-rebuild flag is
\* set, and the render tick that follows rebuilds the swapchain
C6_ResizeEventFlagsRebuild ==
    lastEvent = "resize" =>
        IF pc = "rebuild" THEN requireSwapchainRecreate ELSE tick.rebuilds = 1

\* C7: at the first successful present after a resize from 1280x720 to
\* 800x600, exactly one destroy + create cycle has run since the resize and
\* the swapchain images and the depth image are 800x600
C7_ResizeRebuildsOnceBeforePresent ==
    resize.presented =>
        /\ resize.cycles = 1
        /\ <<resize.w, resize.h>> = ResizedExtent
        /\ <<resize.dw, resize.dh>> = ResizedExtent

\* C8: in the render loop the swapchain is destroyed only at the top of a
\* tick, on the deferred flag, with the device idle: no submitted operation
\* is outstanding, no image is being rendered to, and the tick has not yet
\* acquired or presented anything
C8_DestroyOnlyWhenIdleAtTop ==
    [][(swapchainState' # swapchainState /\ pc # "shutdown") =>
          /\ pc = "rebuild"
          /\ requireSwapchainRecreate
          /\ queue = <<>>
          /\ \A i \in Images : imageRender[i] # "pending"
          /\ acquireResult = "NONE" /\ presentResult = "NONE"
          /\ ~tick.reset /\ ~tick.submitted /\ ~tick.presented]_vars

\* a tick that began with frames in flight has rebuilt the swapchain
C8_Witness ==
    /\ tick.rebuilds = 1
    /\ tick.inFlightAtTop > 0

\* C9: the present of a tick waits on exactly the render-complete semaphore
\* that the submit of the same tick signals, the one of the acquired image;
\* a queued present is gated by its own frame's submit, and no image is
\* handed to the presentation engine before its frame has been rendered
C9_PresentAfterOwnRender ==
    /\ lastShown.rendered
    /\ tick.presented =>
          /\ tick.presentWait = tick.submitSignal
          /\ tick.presentWait = {imageIndex}
          /\ tick.presentImage = imageIndex
    /\ \A k \in PresentOps(queue) :
          \/ \E j \in SubmitOps(queue) :
                /\ j < k
                /\ queue[j].frame = queue[k].frame
                /\ queue[j].image = queue[k].image
                /\ queue[j].sems = queue[k].sems
          \/ /\ imageRender[queue[k].image] = "done"
             /\ \A s \in queue[k].sems : renderSignaled[s]

\* a present is queued behind the pending submit of its own frame, after an
\* earlier frame has been shown
C9_Witness ==
    /\ lastShown.shown
    /\ \E k \in PresentOps(queue), j \in SubmitOps(queue) :
          queue[j].frame = queue[k].frame

\* C10: timelineValue is its initial value plus the number of render ticks
\* begun: plus one once the frame id of the running tick is assigned
C10_TimelineCountsTicks ==
    timelineValue = InitialTimelineValue + ticks
                      + (IF pc \in {"wait", "reset", "acquire", "record",
                                    "submit", "present"} THEN 1 ELSE 0)

\* several ticks have run, the last one aborted by an out-of-date acquire
C10_Witness ==
    /\ ticks >= 3
    /\ pc = "poll"
    /\ acquireResult = "OUT_OF_DATE"

\* C11 (as stated): in ticks 1 and 2 the wait target is <= 0
C11_FirstTicksTargetNotPositive ==
    (pc = "wait" /\ ticks < MaxFramesInFlight) => waitForId <= 0

\* C11 (amended): the backpressure waits of ticks 1 and 2 have targets that
\* the initial value of the timeline semaphore already satisfies, so they
\* return whatever the GPU has done; the wait of tick 3 has as target the
\* frame id of tick 1 and has not returned while that frame is incomplete
C11_FirstTicksFreeThirdWaits ==
    /\ (pc = "wait" /\ ticks < MaxFramesInFlight) =>
          /\ waitForId <= InitialTimelineValue
          /\ TimelineReached(semValue, waitForId)
    /\ (ticks = MaxFramesInFlight /\ pc \in {"wait", "reset", "acquire",
                                             "record", "submit", "present"}) =>
          /\ waitForId = InitialTimelineValue + 1
          /\ (pc # "wait" =>
                /\ semValue >= InitialTimelineValue + 1
                /\ InitialTimelineValue + 1 \notin InFlightFrames)

\* tick 3 is blocked in its wait while the frame of tick 1 is on the queue
C11_Witness ==
    /\ pc = "wait"
    /\ ticks = MaxFramesInFlight
    /\ InitialTimelineValue + 1 \in InFlightFrames
    /\ ~TimelineReached(semValue, waitForId)

\* C12: a successful createSwapchain(extent) that follows destroySwapchain
\* leaves exactly the state a createSwapchain(extent) on the never-created
\* swapchain leaves: one view and one render-complete semaphore per image,
\* the fixed formats, the depth image at extent, every handle of the new
\* generation
C12_RecreateEqualsFreshCreate ==
    (scLog.op = "create" /\ scLog.ok /\ scLog.prev = "destroy") =>
        /\ swapchainState = CreateSwapchainAt(NullSwapchain, scLog.extent[1],
                                              scLog.extent[2], handles, <<"none", 0>>)
        /\ Len(swapchainState.swapchainImages) = NumImages
        /\ Len(swapchainState.swapchainImageViews) = NumImages
        /\ Len(swapchainState.renderCompleteSemaphores) = NumImages
        /\ swapchainState.imageFormat = SwapchainFormat
        /\ swapchainState.depthFormat = DepthFormat
        /\ <<swapchainState.depthWidth, swapchainState.depthHeight>> = scLog.extent
        /\ <<swapchainState.swapchainWidth, swapchainState.swapchainHeight>> = scLog.extent
        /\ swapchainState.swapchain = handles
        /\ swapchainState.depthImage = handles
        /\ swapchainState.depthImageView = handles
        /\ \A i \in Images :
              /\ swapchainState.swapchainImages[i] = handles
              /\ swapchainState.swapchainImageViews[i] = handles
              /\ swapchainState.renderCompleteSemaphores[i] = handles
        /\ ReleasedBy(swapchainState) = CreatedBy(swapchainState, handles)

\* a swapchain of another extent was created, destroyed and created again
C12_Witness ==
    /\ scLog.op = "create" /\ scLog.ok /\ scLog.prev = "destroy"
    /\ scLog.calls = 3
    /\ scLog.extent = ResizedExtent
    /\ swapchainState.depthWidth # InitialWidth
    /\ handles = 2

\* C13: after destroySwapchain, whatever createSwapchain had left behind, no
\* object created by createSwapchain is live
C13_DestroyReleasesEverything ==
    scLog.op = "destroy" => live = {}

\* C14: destroySwapchain never releases an object that is not live, and a
\* call that follows another destroySwapchain (or no createSwapchain at all)
\* releases nothing and changes nothing
C14_DestroyIdempotent ==
    /\ ~scLog.badRelease
    /\ (scLog.op = "destroy" /\ scLog.prev \in {"none", "destroy"}) =>
          /\ scLog.released = {}
          /\ ~scLog.changed

\* destroySwapchain was called twice in a row on a created swapchain
C14_Witness ==
    /\ scLog.op = "destroy" /\ scLog.prev = "destroy"
    /\ scLog.calls = 3
    /\ handles = 1

\* C15: once a GPU call of a tick has failed (an acquire error other than
\* out-of-date/suboptimal, or the createSwapchain of the rebuild), that tick
\* records, submits and presents nothing and no further tick begins
C15_FailureIsFatal ==
    ~scLog.ok =>
        /\ ~tick.recorded
        /\ ~tick.submitted
        /\ ~tick.presented
        /\ pc # "rebuild"

\* C16: the steps of initialize run in their fixed order, and a failing step
\* of initializeVulkan is the last step executed: initialize has returned
\* failure and the render loop is never entered
C16_InitShortCircuits ==
    /\ Len(initSteps) <= Len(FullSequence)
    /\ \A i \in DOMAIN initSteps :
          /\ initSteps[i].step = FullSequence[i]
          /\ (initSteps[i].step \in Range(InitSequence) /\ ~initSteps[i].ok) =>
                /\ i = Len(initSteps)
                /\ initResult = "false"
                /\ ~loopEntered
                /\ mpc \in {"returned", "shutdown", "return", "exited", "crashed"}

\* createSyncResources failed after creating the timeline semaphore, and the
\* process ended without having run createCommandBuffers or the loop
C16_Witness ==
    /\ mpc = "exited"
    /\ Len(initSteps) = StepIndex("createSyncResources")
    /\ ~initSteps[Len(initSteps)].ok
    /\ Obj("timelineSemaphore") \in Range(created)
    /\ Obj("commandPool") \notin Range(created)
    /\ ~loopEntered

\* the step of initialize that creates objects of this kind
CreatedInStep(kind) ==
    CASE kind \in {"swapchain", "view", "semaphore", "depthImage", "depthView"} ->
            "createSwapchain"
      [] kind \in {"sceneImage", "sceneImageView", "vertexBuffer", "indexBuffer"} ->
            "loadModel"
      [] OTHER -> CHOOSE step \in Range(FullSequence) :
                     kind \in {o[1] : o \in Range(StepObjects(step))}

CreatedAt(obj) == CHOOSE k \in DOMAIN created : created[k] = obj

\* C17: when shutdown has run (after a failed initialize as after the loop),
\* of two released objects that were created by different steps the one
\* created later was released first
C17_ReleasedInReverseOrder ==
    mpc \in {"return", "exited"} =>
        \A i, j \in DOMAIN released :
            (i < j /\ CreatedInStep(released[i][1]) # CreatedInStep(released[j][1]))
                => CreatedAt(released[i]) > CreatedAt(released[j])

\* C18: a process whose initialize returned failure exits with a status
\* other than 0
C18_FailedInitExitsNonZero ==
    (mpc = "exited" /\ initResult = "false") => exitCode # 0

\* C19: when a creation call of loadModel failed, initialize reports failure
\* and the loop is not entered
C19_LoadFailureFailsInitialize ==
    \A i \in DOMAIN initSteps :
        (initSteps[i].step = "loadModel" /\ ~initSteps[i].ok /\ mpc # "crashed") =>
            /\ initResult = "false"
            /\ ~loopEntered

\* C20: when createGraphicsPipeline has failed, the pipeline member is the
\* empty Pipeline and neither a pipeline layout nor a pipeline is live
C20_PipelineFailureReleasesAll ==
    (/\ Len(initSteps) = StepIndex("createGraphicsPipeline")
     /\ ~initSteps[Len(initSteps)].ok) =>
        /\ pipeline = NoPipeline
        /\ Obj("pipelineLayout") \notin live
        /\ Obj("pipeline") \notin live

\* the objects that are created from the logical device or its allocator
DeviceChild(obj) == obj[1] \notin {"window", "instance", "surface", "device"}

ReleasedAt(obj) == CHOOSE k \in DOMAIN released : released[k] = obj

\* C21: when shutdown has destroyed the logical device, every object that was
\* created from it has been released, and earlier than the device; the
\* device is destroyed before the instance
C21_DeviceChildrenBeforeDevice ==
    (mpc \in {"return", "exited"} /\ Obj("device") \in Range(released)) =>
        /\ \A o \in Range(created) :
              DeviceChild(o) =>
                 /\ o \in Range(released)
                 /\ ReleasedAt(o) < ReleasedAt(Obj("device"))
        /\ Obj("instance") \in Range(released)
        /\ ReleasedAt(Obj("device")) < ReleasedAt(Obj("instance"))

\* the sub-meshes of all meshes in load order
RECURSIVE FlatSubMeshes(_)
FlatSubMeshes(ms) ==
    IF ms = <<>> THEN <<>> ELSE Head(ms).subMeshes \o FlatSubMeshes(Tail(ms))

\* a model of two primitives with 300 and 200 indices of a loadable type
TwoRangeModels ==
    {m \in Models :
       LET prims == IF Len(m) = 1 THEN m[1] ELSE m[1] \o m[2]
       IN /\ Len(m) <= 2
          /\ Len(prims) = 2
          /\ prims[1].indices = 300 /\ prims[1].componentType = "UNSIGNED_INT"
          /\ prims[2].indices = 200 /\ prims[2].componentType = "UNSIGNED_SHORT"}

\* C22: the draw calls recorded in a frame are, in load order, one per loaded
\* sub-mesh with that sub-mesh's indexCount, indexStart and vertexStart; a
\* model of two sub-meshes with index ranges [0,300) and [300,500) gives
\* exactly the two draws (300 from 0) and (200 from 300)
C22_OneDrawPerSubMesh ==
    spc = "recorded" =>
        /\ Len(draws) = Len(FlatSubMeshes(meshes))
        /\ \A k \in DOMAIN draws :
              /\ draws[k].indexCount = FlatSubMeshes(meshes)[k].indexCount
              /\ draws[k].firstIndex = FlatSubMeshes(meshes)[k].indexStart
              /\ draws[k].vertexOffset = FlatSubMeshes(meshes)[k].vertexStart
        /\ model \in TwoRangeModels =>
              /\ Len(draws) = 2
              /\ <<draws[1].firstIndex, draws[1].indexCount>> = <<0, 300>>
              /\ <<draws[2].firstIndex, draws[2].indexCount>> = <<300, 200>>
              /\ draws[2].vertexOffset = FlatSubMeshes(meshes)[1].vertexCount

\* a frame of the two-range scene has been recorded
C22_Witness ==
    /\ spc = "recorded"
    /\ model \in TwoRangeModels
    /\ Len(draws) = 2
    /\ draws[2].firstIndex = 300
    /\ draws[2].vertexOffset = 3

\* position of the first occurrence of a call in the log of loadModel's calls
CallAt(call) == CHOOSE k \in DOMAIN loadLog :
                   loadLog[k] = call /\ \A j \in 1 .. (k - 1) : loadLog[j] # call

\* C23: once vkFreeCommandBuffers has been called on the transient command
\* buffer, no submission containing it is pending on the queue: the buffer
\* was submitted, the queue was waited idle after that (so an accepted
\* submission has executed), and only then was it freed
C23_FreeAfterUploadCompleted ==
    (transient.state = "freed" \/ "vkFreeCommandBuffers" \in Range(loadLog)) =>
        /\ UploadOps(queue) = {}
        /\ transient.state # "pending"
        /\ CallAt("vkQueueSubmit") < CallAt("vkQueueWaitIdle")
        /\ CallAt("vkQueueWaitIdle") < CallAt("vkFreeCommandBuffers")

\* the upload was submitted, executed by the queue, and the buffer freed
C23_Witness ==
    /\ transient.state = "freed"
    /\ transient.executed
    /\ "createImage" \in Range(loadLog)
    /\ lpc = "done"

\* C24: under a GPU that completes every submitted frame, a tick that has
\* reached its backpressure wait eventually leaves it
C24_WaitEventuallyReturns ==
    (pc = "wait") ~> (pc # "wait")

InTick == pc \in {"wait", "reset", "acquire", "record", "submit", "present"}

\* C25: when render() is about to pass the slot's image-acquire semaphore to
\* vkAcquireNextImageKHR, the semaphore carries no pending signal and no
\* submission that waits on it is still on the queue
C25_AcquireSemaphoreUnsignalledAtAcquire ==
    pc = "acquire" =>
        /\ ~acquireSignaled[frameResIndex]
        /\ \A i \in SubmitOps(queue) : queue[i].slot # frameResIndex

\* the slot of the first frame is acquired again after that frame, which had
\* acquired and submitted, has completed
C25_Witness ==
    /\ pc = "acquire"
    /\ frameId = InitialTimelineValue + 1 + MaxFramesInFlight
    /\ semValue >= InitialTimelineValue + 1
    /\ commandBuffer[1 - frameResIndex].frame = frameId - 1

\* C26: the submissions on the queue signal strictly increasing timeline
\* values, all above the semaphore's initial value; a tick that was not
\* aborted has made exactly one submission, which signals the tick's frameId
C26_OneSubmitSignalsFrameId ==
    /\ semValue >= InitialTimelineValue
    /\ \A i \in SubmitOps(queue) :
          /\ queue[i].frame > InitialTimelineValue
          /\ queue[i].frame > semValue
          /\ queue[i].frame <= timelineValue
          /\ \A j \in SubmitOps(queue) : i < j => queue[i].frame < queue[j].frame
    /\ (InTick /\ ~tick.submitted) =>
          \A i \in SubmitOps(queue) : queue[i].frame < frameId
    /\ ((pc = "present" \/ TickOver) /\ acquireResult \in {"SUCCESS", "SUBOPTIMAL"}) =>
          /\ tick.submitted
          /\ \/ Cardinality({i \in SubmitOps(queue) : queue[i].frame = frameId}) = 1
             \/ /\ semValue >= frameId
                /\ \A i \in SubmitOps(queue) : queue[i].frame > frameId

\* the second submitted frame is on the queue behind the first
C26_Witness ==
    /\ pc = "present"
    /\ Cardinality(SubmitOps(queue)) = 2
    /\ frameId \in InFlightFrames
    /\ frameId - 1 \in InFlightFrames

\* C27: frameId - MaxFramesInFlight is computed on a frameId that is at
\* least MaxFramesInFlight, so the unsigned subtraction does not wrap; in the
\* first MaxFramesInFlight ticks the target is at most the initial value of
\* the timeline semaphore
C27_WaitTargetNoWrap ==
    InTick =>
        /\ frameId >= MaxFramesInFlight
        /\ waitForId = frameId - MaxFramesInFlight
        /\ waitForId >= 0
        /\ ticks < MaxFramesInFlight =>
              /\ TimelineReached(InitialTimelineValue, waitForId)
              /\ waitForId \notin InFlightFrames

\* the last of the first MaxFramesInFlight ticks is in its wait while the
\* frame before it is still executing
C27_Witness ==
    /\ pc = "wait"
    /\ ticks = MaxFramesInFlight - 1
    /\ waitForId = InitialTimelineValue
    /\ InFlightFrames # {}

\* C28: in every tick the slot used is frameId mod MaxFramesInFlight, which
\* is also the slot of the frame the backpressure wait waits for, and that
\* frame is the previous one assigned to the slot
C28_SlotIsFrameIdModulo ==
    InTick =>
        /\ frameResIndex = frameId % MaxFramesInFlight
        /\ frameResIndex = (frameCounter - 1) % MaxFramesInFlight
        /\ waitForId % MaxFramesInFlight = frameResIndex
        /\ waitForId = frameId - MaxFramesInFlight

\* a tick that follows an aborted tick
C28_Witness ==
    /\ pc = "acquire"
    /\ prevAcquire = "OUT_OF_DATE"
    /\ ticks = 2
    /\ frameResIndex = 0

\* C29: at no instant are the submissions of two frames in flight both
\* clearing or writing the one depth image; a later frame's depth writes
\* begin only when those of every earlier incomplete frame are over
C29_DepthWritesOrdered ==
    /\ Cardinality(DepthWriters) <= 1
    /\ \A f \in DepthWriters : \A g \in InFlightFrames : f <= g

\* two frames are in flight, the older one is writing depth, the newer one
\* is held back
C29_Witness ==
    /\ Cardinality(InFlightFrames) = MaxFramesInFlight
    /\ Cardinality(DepthWriters) = 1
    /\ \E k \in SubmitOps(queue) :
          /\ queue[k].frame \notin depthWriting
          /\ acquireSignaled[queue[k].slot]

\* C30: when an enumerated physical device has a queue family with graphics
\* and presentation and exposes the required features, device selection ends
\* on such a device and without a selection failure; it fails only when no
\* enumerated device qualifies
C30_SelectsQualifyingDevice ==
    sel.pc = "done" =>
        IF \E i \in DOMAIN physicalDevices : Qualifies(physicalDevices[i])
        THEN /\ sel.result \notin SelectionFailures
             /\ sel.physicalDevice \in DOMAIN physicalDevices
             /\ Qualifies(physicalDevices[sel.physicalDevice])
        ELSE sel.result \in SelectionFailures

\* C31: when main is about to call shutdown(), every call shutdown() issues
\* goes through a handle that was created: none is made through a null
\* device, a null allocator or a null instance
C31_ShutdownUsesCreatedHandles ==
    mpc = "shutdown" =>
        \A c \in Range(ShutdownCalls(live, swapchainState, pipeline)) :
            c.via \in live

\* loadModel(): the sizes of the vertices and indices arrays once the meshes
\* k .. Len(m) of model m have been loaded after vsize vertices and isize
\* indices
RECURSIVE LoadedSizes(_, _, _, _)
LoadedSizes(m, k, vsize, isize) ==
    IF k > Len(m)
    THEN [vsize |-> vsize, isize |-> isize]
    ELSE LET one == LoadPrimitives(m[k], 1, vsize, isize)
         IN  LoadedSizes(m, k + 1, one.vsize, one.isize)

\* C32: after loadModel every sub-mesh's index range [indexStart,
\* indexStart + indexCount) lies within the loaded indices and its vertex
\* range within the loaded vertices, and each sub-mesh's index range begins
\* where its predecessor's ends, whatever the index component type
C32_SubMeshRangesWithinArrays ==
    spc # "load" =>
        LET subs == FlatSubMeshes(meshes)
            sizes == LoadedSizes(model, 1, 0, 0)
        IN  /\ \A k \in DOMAIN subs :
                  /\ subs[k].indexStart + subs[k].indexCount <= sizes.isize
                  /\ subs[k].vertexStart + subs[k].vertexCount <= sizes.vsize
            /\ \A k \in DOMAIN subs :
                  k > 1 => subs[k].indexStart =
                              subs[k - 1].indexStart + subs[k - 1].indexCount

====
